---- MODULE Spec2Model ----
(***************************************************************************)
(* Versioned, shared diagrams of the DrawDB server: the diagrams and       *)
(* diagram_shares tables, the PostgreSQL row lock taken by                 *)
(* DiagramController.update, and the handlers of DiagramController.        *)
(*                                                                         *)
(* A handler is a sequence of database statements.  Each statement is one  *)
(* step of the handler: HandlerStep(db, r) is the effect of the next       *)
(* statement of request r on the database db together with the JavaScript  *)
(* that follows it up to the next statement.  Run(db, r) executes a        *)
(* handler to its response.  A request that overlaps no other request is   *)
(* one Run; overlapping requests interleave their steps.                   *)
(*                                                                         *)
(* The variable client is the WorkSpace component of the browser of the    *)
(* diagram's creator: its autosave, its conflict dialog and its version    *)
(* poll, each call of diagramAPI being a request of the server above.      *)
(***************************************************************************)
EXTENDS Integers, FiniteSets, Sequences, TLC

VARIABLES diagrams,   \* the rows of table diagrams (committed state)
          shares,     \* the rows of table diagram_shares
          rowLock,    \* diagram id -> the transaction holding its row lock, 0 if none
          clock,      \* the number of timestamps handed out so far
          nextId,     \* the number of diagram ids allocated so far
          createdBy,  \* history: diagram id -> the actor whose request created it
          commits,    \* history: diagram id -> the versions written by committed updates
          reqs,       \* request slot -> the request it serves, or its last response
          client      \* the state of one WorkSpace component (the browser of user A)

vars == <<diagrams, shares, rowLock, clock, nextId, createdBy, commits, reqs,
          client>>

----------------------------------------------------------------------------
(* Bounds *)

MaxClock == 3         \* timestamps are 1 .. MaxClock

Users == {"A", "B", "C"}      \* the rows of table users
NonUser == "Z"                \* a well-formed UUID that names no user
Payloads == {"P1", "P2", "P3"}   \* diagram content (name, tables, ...), opaque
DocIds == {1, 2}                \* diagram ids, in the order of allocation
Slots == {1, 2}               \* concurrent requests (each its own connection)

VIEWER == "viewer"
EDITOR == "editor"
OWNER == "owner"
PermissionLevel == {VIEWER, EDITOR, OWNER}

NoRow == [absent |-> TRUE]    \* null: findOne / findByPk found nothing
NoBody == [empty |-> TRUE]
Error(message) == [error |-> message]
AccessDenied == Error("Diagram not found or access denied")

----------------------------------------------------------------------------
(* The database *)

Database == [diagrams |-> diagrams, shares |-> shares, rowLock |-> rowLock,
             clock |-> clock, nextId |-> nextId,
             createdBy |-> createdBy, commits |-> commits]

DiagramExists(db, id) == \E d \in db.diagrams : d.id = id

DiagramRow(db, id) ==
    IF DiagramExists(db, id) THEN CHOOSE d \in db.diagrams : d.id = id ELSE NoRow

ShareRows(db, id, user) ==
    {s \in db.shares : s.diagramId = id /\ s.sharedWithUserId = user}

\* Diagram.findOne({ where: { id, userId } })
OwnedDiagram(db, id, user) ==
    IF \E d \in db.diagrams : d.id = id /\ d.userId = user
    THEN CHOOSE d \in db.diagrams : d.id = id /\ d.userId = user
    ELSE NoRow

\* UPDATE diagrams SET <fields> WHERE id = <id>: no row, no effect.
WriteDiagram(db, id, fields) ==
    [db EXCEPT !.diagrams =
        {IF d.id = id
         THEN [k \in DOMAIN d |-> IF k \in DOMAIN fields THEN fields[k] ELSE d[k]]
         ELSE d : d \in db.diagrams}]

\* Model.set / instance.update: the primary key of a loaded instance is not
\* assignable, keys that are no attribute of the model are not persisted.
SetValues(inst, values) ==
    [k \in DOMAIN inst |->
        IF k \in DOMAIN values /\ k # "id" THEN values[k] ELSE inst[k]]

\* The attributes instance.update writes: those whose value changed.
ChangedFields(inst, values) ==
    LET new == SetValues(inst, values)
        ks == {k \in DOMAIN inst : new[k] # inst[k]}
    IN  [k \in ks |-> new[k]]

\* { ...a, ...b }: the keys of b win.
Spread(a, b) == b @@ a

\* const { expectedVersion, ...diagramData } = req.body
RestOf(body, key) == [k \in DOMAIN body \ {key} |-> body[k]]

----------------------------------------------------------------------------
(* Requests *)

Request(op, slot, actor, id, target, body) ==
    [op |-> op, slot |-> slot, actor |-> actor, id |-> id, target |-> target,
     body |-> body, pc |-> "start", inst |-> NoRow, share |-> NoRow, n |-> 0,
     status |-> 0, resp |-> NoBody,
     overlapped |-> FALSE]   \* history: another request was in flight meanwhile

\* A slot that serves no request and holds no response.
Idle == [Request("idle", 0, NonUser, 0, NonUser, NoBody) EXCEPT !.pc = "done"]

Goto(db, r, pc) == [db |-> db, r |-> [r EXCEPT !.pc = pc]]

Respond(db, r, status, resp) ==
    [db |-> db, r |-> [r EXCEPT !.pc = "done", !.status = status, !.resp = resp]]

\* transaction.rollback(): the row lock, if this transaction holds it, is released.
Rollback(db, r) ==
    [db EXCEPT !.rowLock = [i \in DOMAIN db.rowLock |->
        IF db.rowLock[i] = r.slot THEN 0 ELSE db.rowLock[i]]]

----------------------------------------------------------------------------
(* DiagramController.create *)

CreateStep_BodyWins(db, r) ==
    LET diagramData == Spread([userId |-> r.actor, lastModifiedBy |-> r.actor,
                               version |-> 1], r.body)
        defaults == [id |-> db.nextId + 1, userId |-> r.actor, payload |-> "P1",
                     version |-> 1, lastModified |-> db.clock + 1,
                     lastModifiedBy |-> r.actor, isShared |-> FALSE]
        row == [k \in DOMAIN defaults |->
                   IF k \in DOMAIN diagramData THEN diagramData[k] ELSE defaults[k]]
    IN  Respond([db EXCEPT !.diagrams = @ \cup {row},
                           !.nextId = @ + 1,
                           !.clock = @ + 1,
                           !.createdBy = [@ EXCEPT ![row.id] = r.actor]],
                r, 201, row)

\* Diagram.create({ ...req.body, userId, lastModifiedBy, version: 1 }): columns
\* the body does not give take their defaults.
CreateStep(db, r) ==
    LET diagramData == Spread(r.body,
            [userId |-> r.actor, lastModifiedBy |-> r.actor, version |-> 1])
        defaults == [id |-> db.nextId + 1, userId |-> r.actor, payload |-> "P1",
                     version |-> 1, lastModified |-> db.clock + 1,
                     lastModifiedBy |-> r.actor, isShared |-> FALSE]
        row == [k \in DOMAIN defaults |->
                   IF k \in DOMAIN diagramData THEN diagramData[k] ELSE defaults[k]]
    IN  Respond([db EXCEPT !.diagrams = @ \cup {row},
                           !.nextId = @ + 1,
                           !.clock = @ + 1,
                           !.createdBy = [@ EXCEPT ![row.id] = r.actor]],
                r, 201, row)

----------------------------------------------------------------------------
(* DiagramController.update *)

\* if (expectedVersion && diagram.version !== expectedVersion)
VersionConflict(body, version) ==
    /\ "expectedVersion" \in DOMAIN body
    /\ body.expectedVersion # 0
    /\ version # body.expectedVersion

ConflictBody(inst) ==
    [version |-> inst.version, lastModified |-> inst.lastModified,
     lastModifiedBy |-> inst.lastModifiedBy, data |-> inst]

UpdateValues_BodyWins(r, inst, now) ==
    Spread([version |-> inst.version + 1, lastModifiedBy |-> r.actor,
            lastModified |-> now],
           RestOf(r.body, "expectedVersion"))

UpdateValues_KeepsModifier(r, inst, now) ==
    Spread(RestOf(r.body, "expectedVersion"),
           [version |-> inst.version + 1, lastModified |-> now])

\* The values update() hands to diagram.update().
UpdateValues(r, inst, now) ==
    Spread(RestOf(r.body, "expectedVersion"),
           [version |-> inst.version + 1, lastModifiedBy |-> r.actor,
            lastModified |-> now])

UpdateLock_NoLock(db, r) ==
    LET diagram == DiagramRow(db, r.id)
    IN  IF diagram = NoRow
        THEN Respond(Rollback(db, r), r, 404, Error("Diagram not found"))
        ELSE [db |-> db,
              r  |-> [r EXCEPT !.inst = diagram,
                               !.pc = IF diagram.userId = r.actor
                                      THEN "authorized" ELSE "locked"]]

\* Diagram.findOne({ where: { id }, lock: true, transaction })
UpdateLock(db, r) ==
    LET diagram == DiagramRow(db, r.id)
    IN  IF diagram = NoRow
        THEN Respond(Rollback(db, r), r, 404, Error("Diagram not found"))
        ELSE [db |-> [db EXCEPT !.rowLock[r.id] = r.slot],
              r  |-> [r EXCEPT !.inst = diagram,
                               !.pc = IF diagram.userId = r.actor
                                      THEN "authorized" ELSE "locked"]]

UpdateAuthorize_AnyShare(db, r) ==
    LET hasEditAccess == ShareRows(db, r.id, r.actor) # {}
    IN  IF ~hasEditAccess
        THEN Respond(Rollback(db, r), r, 403, Error("No edit permission"))
        ELSE Goto(db, r, "authorized")

UpdateAuthorize_NoRollback(db, r) ==
    LET hasEditAccess == \E s \in ShareRows(db, r.id, r.actor) :
                             s.permissionLevel \in {EDITOR, OWNER}
    IN  IF ~hasEditAccess
        THEN Respond(db, r, 403, Error("No edit permission"))
        ELSE Goto(db, r, "authorized")

\* DiagramShare.findOne({ where: { diagramId, sharedWithUserId,
\*                                 permissionLevel: [EDITOR, OWNER] }, transaction })
UpdateAuthorize(db, r) ==
    LET hasEditAccess == \E s \in ShareRows(db, r.id, r.actor) :
                             s.permissionLevel \in {EDITOR, OWNER}
    IN  IF ~hasEditAccess
        THEN Respond(Rollback(db, r), r, 403, Error("No edit permission"))
        ELSE Goto(db, r, "authorized")

UpdateCompare_WriteFirst(db, r) ==
    LET values == UpdateValues(r, r.inst, db.clock + 1)
        written == WriteDiagram([db EXCEPT !.clock = @ + 1], r.id,
                                ChangedFields(r.inst, values))
    IN  IF VersionConflict(r.body, r.inst.version)
        THEN Respond(Rollback(written, r), r, 409, ConflictBody(r.inst))
        ELSE [db |-> written,
              r  |-> [r EXCEPT !.pc = "written",
                               !.share = ChangedFields(r.inst, values),
                               !.inst = SetValues(r.inst, values)]]

\* The conflict check, then diagram.update(values, { transaction }): the row
\* is written inside the transaction and is not visible before its commit.
UpdateCompare(db, r) ==
    IF VersionConflict(r.body, r.inst.version)
    THEN Respond(Rollback(db, r), r, 409, ConflictBody(r.inst))
    ELSE LET values == UpdateValues(r, r.inst, db.clock + 1)
         IN  IF "userId" \in DOMAIN values /\ values.userId \notin Users
             THEN \* foreign key violation: catch, rollback, 500
                  Respond(Rollback([db EXCEPT !.clock = @ + 1], r), r, 500,
                          Error("Failed to update diagram"))
             ELSE [db |-> [db EXCEPT !.clock = @ + 1],
                   r  |-> [r EXCEPT !.pc = "written",
                                    !.share = ChangedFields(r.inst, values),
                                    !.inst = SetValues(r.inst, values)]]

UpdateCommit_AnswersUncommitted(db, r) ==
    Respond(Rollback(db, r), r, 200, r.inst)

\* transaction.commit(), then res.json(diagram)
UpdateCommit(db, r) ==
    LET written == WriteDiagram(db, r.id, r.share)
        released == Rollback(written, r)
    IN  Respond([released EXCEPT !.commits[r.id] = Append(@, r.inst.version)],
                r, 200, r.inst)

UpdateStep(db, r) ==
    CASE r.pc = "start"      -> UpdateLock(db, r)
      [] r.pc = "locked"     -> UpdateAuthorize(db, r)
      [] r.pc = "authorized" -> UpdateCompare(db, r)
      [] r.pc = "written"    -> UpdateCommit(db, r)

----------------------------------------------------------------------------
(* DiagramController.getById *)

GetByIdStep_Touches(db, r) ==
    LET diagram == DiagramRow(db, r.id)
        isOwner == diagram.userId = r.actor
        hasSharedAccess == ShareRows(db, r.id, r.actor) # {}
    IN  IF diagram = NoRow THEN Respond(db, r, 404, Error("Diagram not found"))
        ELSE IF ~isOwner /\ ~hasSharedAccess
             THEN Respond(db, r, 403, Error("Access denied"))
        ELSE Respond(WriteDiagram(db, r.id, [lastModifiedBy |-> r.actor]),
                     r, 200, diagram)

GetByIdStep(db, r) ==
    LET diagram == DiagramRow(db, r.id)
        isOwner == diagram.userId = r.actor
        hasSharedAccess == ShareRows(db, r.id, r.actor) # {}
    IN  IF diagram = NoRow THEN Respond(db, r, 404, Error("Diagram not found"))
        ELSE IF ~isOwner /\ ~hasSharedAccess
             THEN Respond(db, r, 403, Error("Access denied"))
        ELSE Respond(db, r, 200, diagram)

----------------------------------------------------------------------------
(* DiagramController.delete *)

\* Diagram.findOne({ where: { id, userId: req.userId } })
DeleteFind(db, r) ==
    LET diagram == OwnedDiagram(db, r.id, r.actor)
    IN  IF diagram = NoRow THEN Respond(db, r, 404, AccessDenied)
        ELSE Goto(db, [r EXCEPT !.inst = diagram], "found")

DeleteDestroy_NoCascade(db, r) ==
    Respond([db EXCEPT !.diagrams = {d \in @ : d.id # r.id}], r, 200, NoBody)

\* diagram.destroy(): ON DELETE CASCADE removes the diagram's share rows.
DeleteDestroy(db, r) ==
    Respond([db EXCEPT !.diagrams = {d \in @ : d.id # r.id},
                       !.shares = {s \in @ : s.diagramId # r.id}],
            r, 200, NoBody)

DeleteStep(db, r) ==
    CASE r.pc = "start" -> DeleteFind(db, r)
      [] r.pc = "found" -> DeleteDestroy(db, r)

----------------------------------------------------------------------------
(* DiagramController.getVersion *)

\* findByPk(id, { attributes: ['id', 'version', 'lastModified', 'lastModifiedBy'] })
VersionInfo(diagram) ==
    [id |-> diagram.id, version |-> diagram.version,
     lastModified |-> diagram.lastModified,
     lastModifiedBy |-> diagram.lastModifiedBy]

GetVersionStep(db, r) ==
    LET diagram == DiagramRow(db, r.id)
    IN  IF diagram = NoRow THEN Respond(db, r, 404, Error("Diagram not found"))
        ELSE Respond(db, r, 200, VersionInfo(diagram))

----------------------------------------------------------------------------
(* DiagramController.sync *)

SyncStep(db, r) ==
    LET diagram == DiagramRow(db, r.id)
    IN  IF diagram = NoRow THEN Respond(db, r, 404, Error("Diagram not found"))
        ELSE IF diagram.version # r.body.expectedVersion
             THEN Respond(db, r, 409, [currentVersion |-> diagram])
        ELSE Respond(db, r, 200, [version |-> diagram.version])

----------------------------------------------------------------------------
(* DiagramController.duplicate *)

DuplicateStep(db, r) ==
    CASE r.pc = "start" ->
            LET originalDiagram == DiagramRow(db, r.id)
            IN  IF originalDiagram = NoRow
                THEN Respond(db, r, 404, Error("Diagram not found"))
                ELSE Goto(db, [r EXCEPT !.inst = originalDiagram], "found")
      [] r.pc = "found" ->
            LET duplicateData == RestOf(r.inst, "id")
                values == Spread(duplicateData,
                            [userId |-> r.actor, lastModifiedBy |-> r.actor,
                             version |-> 1])
                newDiagram == Spread(values, [id |-> db.nextId + 1])
            IN  Respond([db EXCEPT !.diagrams = @ \cup {newDiagram},
                                   !.nextId = @ + 1,
                                   !.createdBy = [@ EXCEPT ![newDiagram.id] = r.actor]],
                        r, 201, newDiagram)

----------------------------------------------------------------------------
(* DiagramController.shareDiagram *)

ShareDiagramStep(db, r) ==
    CASE r.pc = "start" ->
            LET diagram == OwnedDiagram(db, r.id, r.actor)
            IN  IF diagram = NoRow THEN Respond(db, r, 404, AccessDenied)
                ELSE IF r.body.userId \notin Users
                     THEN Respond(db, r, 404, Error("User not found"))
                ELSE Goto(db, [r EXCEPT !.inst = diagram], "found")
      [] r.pc = "found" ->
            IF ShareRows(db, r.id, r.body.userId) # {}
            THEN Respond(db, r, 409, Error("Diagram already shared with this user"))
            ELSE Goto(db, r, "checked")
      [] r.pc = "checked" ->
            LET share == [diagramId |-> r.id, sharedWithUserId |-> r.body.userId,
                          sharedByUserId |-> r.actor,
                          permissionLevel |-> r.body.permissionLevel]
            IN  IF \/ ShareRows(db, r.id, r.body.userId) # {}   \* unique_diagram_user
                   \/ ~DiagramExists(db, r.id)                  \* foreign key
                THEN Respond(db, r, 500, Error("Failed to share diagram"))
                ELSE Goto([db EXCEPT !.shares = @ \cup {share}],
                          [r EXCEPT !.share = share], "created")
      [] r.pc = "created" ->
            Respond(WriteDiagram(db, r.id, ChangedFields(r.inst, [isShared |-> TRUE])),
                    r, 201, r.share)

----------------------------------------------------------------------------
(* DiagramController.getShares *)

GetSharesStep(db, r) ==
    CASE r.pc = "start" ->
            LET diagram == OwnedDiagram(db, r.id, r.actor)
            IN  IF diagram = NoRow THEN Respond(db, r, 404, AccessDenied)
                ELSE Goto(db, [r EXCEPT !.inst = diagram], "found")
      [] r.pc = "found" ->
            Respond(db, r, 200, [shares |-> {s \in db.shares : s.diagramId = r.id}])

----------------------------------------------------------------------------
(* DiagramController.updateShare *)

UpdateShareStep(db, r) ==
    CASE r.pc = "start" ->
            LET diagram == OwnedDiagram(db, r.id, r.actor)
            IN  IF diagram = NoRow THEN Respond(db, r, 404, AccessDenied)
                ELSE Goto(db, [r EXCEPT !.inst = diagram], "found")
      [] r.pc = "found" ->
            LET found == ShareRows(db, r.id, r.target)
            IN  IF found = {} THEN Respond(db, r, 404, Error("Share not found"))
                ELSE Goto(db, [r EXCEPT !.share = CHOOSE s \in found : TRUE], "loaded")
      [] r.pc = "loaded" ->
            LET share == [r.share EXCEPT !.permissionLevel = r.body.permissionLevel]
            IN  Respond([db EXCEPT !.shares =
                            {IF s = r.share THEN share ELSE s : s \in @}],
                        r, 200, share)

----------------------------------------------------------------------------
(* DiagramController.revokeShare *)

\* Diagram.findOne({ where: { id, userId: req.userId } })
RevokeFind(db, r) ==
    LET diagram == OwnedDiagram(db, r.id, r.actor)
    IN  IF diagram = NoRow THEN Respond(db, r, 404, AccessDenied)
        ELSE Goto(db, [r EXCEPT !.inst = diagram], "found")

\* DiagramShare.destroy({ where: { diagramId, sharedWithUserId } })
RevokeDestroy(db, r) ==
    LET deleted == Cardinality(ShareRows(db, r.id, r.target))
    IN  IF deleted = 0 THEN Respond(db, r, 404, Error("Share not found"))
        ELSE Goto([db EXCEPT !.shares = @ \ ShareRows(db, r.id, r.target)],
                  r, "deleted")

\* DiagramShare.count({ where: { diagramId } })
RevokeCount(db, r) ==
    LET remainingShares == Cardinality({s \in db.shares : s.diagramId = r.id})
    IN  IF remainingShares = 0 THEN Goto(db, [r EXCEPT !.n = 0], "counted")
        ELSE Respond(db, [r EXCEPT !.n = remainingShares], 200, NoBody)

RevokeClearFlag_Skipped(db, r) == Respond(db, r, 200, NoBody)

\* diagram.update({ isShared: false })
RevokeClearFlag(db, r) ==
    Respond(WriteDiagram(db, r.id, ChangedFields(r.inst, [isShared |-> FALSE])),
            r, 200, NoBody)

RevokeShareStep(db, r) ==
    CASE r.pc = "start"   -> RevokeFind(db, r)
      [] r.pc = "found"   -> RevokeDestroy(db, r)
      [] r.pc = "deleted" -> RevokeCount(db, r)
      [] r.pc = "counted" -> RevokeClearFlag(db, r)

----------------------------------------------------------------------------
(* Dispatch *)

HandlerStep(db, r) ==
    CASE r.op = "create"       -> CreateStep(db, r)
      [] r.op = "update"       -> UpdateStep(db, r)
      [] r.op = "getById"      -> GetByIdStep(db, r)
      [] r.op = "delete"       -> DeleteStep(db, r)
      [] r.op = "getVersion"   -> GetVersionStep(db, r)
      [] r.op = "sync"         -> SyncStep(db, r)
      [] r.op = "duplicate"    -> DuplicateStep(db, r)
      [] r.op = "shareDiagram" -> ShareDiagramStep(db, r)
      [] r.op = "getShares"    -> GetSharesStep(db, r)
      [] r.op = "updateShare"  -> UpdateShareStep(db, r)
      [] r.op = "revokeShare"  -> RevokeShareStep(db, r)

\* The next statement of r needs the row lock of diagram r.id: SELECT ... FOR
\* UPDATE, UPDATE and DELETE of the row, and the FOR KEY SHARE lock an INSERT
\* of a share row takes on the diagram it references.
NeedsRowLock(r) ==
    \/ r.op = "update" /\ r.pc = "start"
    \/ r.op = "delete" /\ r.pc = "found"
    \/ r.op = "shareDiagram" /\ r.pc = "checked"
    \/ r.op = "shareDiagram" /\ r.pc = "created"
          /\ DOMAIN ChangedFields(r.inst, [isShared |-> TRUE]) # {}
    \/ r.op = "revokeShare" /\ r.pc = "counted"
          /\ DOMAIN ChangedFields(r.inst, [isShared |-> FALSE]) # {}

Blocked_Never(db, r) == FALSE

\* The next statement of r waits for a row lock another transaction holds.
Blocked(db, r) ==
    /\ NeedsRowLock(r)
    /\ DiagramExists(db, r.id)
    /\ db.rowLock[r.id] \notin {0, r.slot}

RECURSIVE Run(_, _)
Run(db, r) ==
    IF r.pc = "done" THEN [db |-> db, r |-> r]
    ELSE LET next == HandlerStep(db, r) IN Run(next.db, next.r)

----------------------------------------------------------------------------
(* Request bodies *)

ExpectedVersions == 0 .. MaxClock

\* Attributes of the model a caller may add to the body of PUT /:id.
ForgedMetadata ==
    [id |-> 2, version |-> 0, lastModifiedBy |-> NonUser, lastModified |-> 0]

ForgedFields ==
    {[userId |-> u] : u \in {"B", NonUser}}
       \cup {ForgedMetadata}
       \cup {[isShared |-> b] : b \in BOOLEAN}

VersionedBodies ==
    {[payload |-> p, expectedVersion |-> v] : p \in {"P2", "P3"}, v \in ExpectedVersions}

UpdateBodies ==
    VersionedBodies
       \cup {[payload |-> "P2"]}
       \cup {Spread([payload |-> "P2"], f) : f \in ForgedFields}
       \cup {Spread([payload |-> "P2", expectedVersion |-> 1], f) : f \in ForgedFields}

Grantees == {"A", "B", NonUser}

ShareBodies ==
    {[userId |-> u, permissionLevel |-> l] : u \in Grantees, l \in PermissionLevel}

LevelBodies == {[permissionLevel |-> l] : l \in PermissionLevel}

----------------------------------------------------------------------------
(* The system *)

\* No call of diagramAPI is awaited in a slot; otherwise the kind of call and
\* the currentVersion its closure captured.
NoCall == [kind |-> "none", seen |-> 0]

\* WorkSpace before load(): useState(1), useState(false), useState(null).
ClosedClient ==
    [id |-> 0, tables |-> "P1", currentVersion |-> 1, saveState |-> "NONE",
     showConflictDialog |-> FALSE, conflictData |-> NoRow, warning |-> FALSE,
     calls |-> [s \in Slots |-> NoCall]]

Init ==
    /\ diagrams = {}
    /\ shares = {}
    /\ rowLock = [i \in DocIds |-> 0]
    /\ clock = 0
    /\ nextId = 0
    /\ createdBy = [i \in DocIds |-> NonUser]
    /\ commits = [i \in DocIds |-> <<>>]
    /\ reqs = [s \in Slots |-> Idle]
    /\ client = ClosedClient

Install(db) ==
    /\ diagrams' = db.diagrams
    /\ shares' = db.shares
    /\ rowLock' = db.rowLock
    /\ clock' = db.clock
    /\ nextId' = db.nextId
    /\ createdBy' = db.createdBy
    /\ commits' = db.commits

InFlight(s) == reqs[s].pc # "done"

Quiescent == \A s \in Slots : ~InFlight(s)

\* Timestamps the requests in flight will still take.
PendingTimestamps ==
    Cardinality({s \in Slots : /\ InFlight(s)
                               /\ reqs[s].op = "update"
                               /\ reqs[s].pc # "written"})

\* A request served from arrival to response in one piece; the actions that
\* use it require that no other request is in flight.
Serve(r) ==
    /\ reqs[r.slot] = Idle
    /\ LET out == Run(Database, r)
       IN  /\ Install(out.db)
           /\ reqs' = [reqs EXCEPT ![r.slot] = out.r]
    /\ UNCHANGED client

\* A request arrives while others may be in flight.
Arrive(r) ==
    /\ reqs[r.slot] = Idle
    /\ reqs' = [s \in Slots |->
                  IF s = r.slot
                  THEN [r EXCEPT !.overlapped = \E t \in Slots : InFlight(t)]
                  ELSE IF InFlight(s) THEN [reqs[s] EXCEPT !.overlapped = TRUE]
                  ELSE reqs[s]]
    /\ UNCHANGED <<diagrams, shares, rowLock, clock, nextId, createdBy, commits>>

Begin(r) ==
    /\ Arrive(r)
    /\ UNCHANGED client

\* The request in slot s executes its next statement.
Step(s) ==
    /\ InFlight(s)
    /\ ~Blocked(Database, reqs[s])
    /\ LET out == HandlerStep(Database, reqs[s])
       IN  /\ Install(out.db)
           /\ reqs' = [reqs EXCEPT ![s] = out.r]
    /\ UNCHANGED client

\* The response in slot s has been delivered.
Release(s) ==
    /\ ~InFlight(s)
    /\ reqs[s] # Idle
    /\ reqs' = [reqs EXCEPT ![s] = Idle]
    /\ UNCHANGED <<diagrams, shares, rowLock, clock, nextId, createdBy, commits,
                   client>>

----------------------------------------------------------------------------
(* Requests served one at a time *)

MainDocs == {1}

Create ==
    /\ Quiescent
    /\ nextId < Cardinality(MainDocs) /\ clock < MaxClock
    /\ Serve(Request("create", 1, "A", 0, NonUser, [payload |-> "P1"]))

Update ==
    /\ Quiescent
    /\ clock < MaxClock
    /\ \E actor \in Users, id \in MainDocs, body \in UpdateBodies :
          Serve(Request("update", 1, actor, id, NonUser, body))

GetById ==
    /\ Quiescent
    /\ \E actor \in Users, id \in MainDocs :
           Serve(Request("getById", 1, actor, id, NonUser, NoBody))

Delete ==
    /\ Quiescent
    /\ \E actor \in Users, id \in MainDocs :
           Serve(Request("delete", 1, actor, id, NonUser, NoBody))

ShareDiagram ==
    /\ Quiescent
    /\ \E actor \in Users, id \in MainDocs, body \in ShareBodies :
           Serve(Request("shareDiagram", 1, actor, id, NonUser, body))

GetShares ==
    /\ Quiescent
    /\ \E actor \in Users, id \in MainDocs :
           Serve(Request("getShares", 1, actor, id, NonUser, NoBody))

UpdateShare ==
    /\ Quiescent
    /\ \E actor \in Users, id \in MainDocs, target \in Grantees, body \in LevelBodies :
           Serve(Request("updateShare", 1, actor, id, target, body))

RevokeShare ==
    /\ Quiescent
    /\ \E actor \in Users, id \in MainDocs, target \in Grantees :
           Serve(Request("revokeShare", 1, actor, id, target, NoBody))

Delivered == Release(1)

Next ==
    \/ Create \/ Update \/ GetById \/ Delete
    \/ ShareDiagram \/ GetShares \/ UpdateShare \/ RevokeShare
    \/ Delivered

Spec == Init /\ [][Next]_vars

----------------------------------------------------------------------------
(* Overlapping updates of one diagram *)

\* What slot s sends: its own payload, any expected version, or forged metadata.
ConcurrentBodies(s) ==
    LET p == IF s = 1 THEN "P2" ELSE "P3"
    IN  {[payload |-> p, expectedVersion |-> v] : v \in ExpectedVersions}
           \cup {Spread([payload |-> p], ForgedMetadata)}

SetUpDiagram ==
    /\ Quiescent
    /\ nextId < Cardinality(MainDocs) /\ clock < MaxClock
    /\ Serve(Request("create", 1, "A", 0, NonUser, [payload |-> "P1"]))

SetUpShare ==
    /\ Quiescent
    /\ \E level \in PermissionLevel :
          Serve(Request("shareDiagram", 1, "A", 1, NonUser,
                        [userId |-> "B", permissionLevel |-> level]))

\* POST /:id/duplicate of the diagram under study, by any user.
Duplicate ==
    /\ Quiescent
    /\ nextId \in MainDocs /\ nextId + 1 \in DocIds
    /\ \E actor \in Users :
          Serve(Request("duplicate", 1, actor, 1, NonUser, NoBody))

BeginUpdate(s) ==
    /\ clock + PendingTimestamps < MaxClock
    /\ \E actor \in {"A", "B"}, body \in ConcurrentBodies(s) :
          Begin(Request("update", s, actor, 1, NonUser, body))

NextConcurrent ==
    \/ SetUpDiagram
    \/ SetUpShare
    \/ Duplicate
    \/ \E s \in Slots : BeginUpdate(s)
    \/ \E s \in Slots : Step(s)
    \/ \E s \in Slots : Release(s)

SpecConcurrent == Init /\ [][NextConcurrent]_vars

----------------------------------------------------------------------------
(* Overlapping share management and deletion of one diagram *)

\* The owner's requests; none of them runs in a transaction, so each awaited
\* statement commits by itself and the statements of two requests interleave.
BeginShare(s) ==
    /\ nextId \in MainDocs
    /\ \E grantee \in {"B", "C"}, level \in PermissionLevel :
          Begin(Request("shareDiagram", s, "A", 1, NonUser,
                        [userId |-> grantee, permissionLevel |-> level]))

BeginRevoke(s) ==
    /\ nextId \in MainDocs
    /\ \E grantee \in {"B", "C"} :
          Begin(Request("revokeShare", s, "A", 1, grantee, NoBody))

BeginDelete(s) ==
    /\ nextId \in MainDocs
    /\ Begin(Request("delete", s, "A", 1, NonUser, NoBody))

NextGrants ==
    \/ SetUpDiagram
    \/ \E s \in Slots : BeginShare(s)
    \/ \E s \in Slots : BeginRevoke(s)
    \/ \E s \in Slots : BeginDelete(s)
    \/ \E s \in Slots : Step(s)
    \/ \E s \in Slots : Release(s)

SpecGrants == Init /\ [][NextGrants]_vars

----------------------------------------------------------------------------
(* A grantee's update overlapping the owner's changes of its share *)

BeginGranteeUpdate ==
    /\ nextId \in MainDocs
    /\ clock + PendingTimestamps < MaxClock
    /\ \E v \in ExpectedVersions :
          Begin(Request("update", 1, "B", 1, NonUser,
                        [payload |-> "P2", expectedVersion |-> v]))

BeginOwnerRevoke ==
    /\ nextId \in MainDocs
    /\ Begin(Request("revokeShare", 2, "A", 1, "B", NoBody))

BeginOwnerUpdateShare ==
    /\ nextId \in MainDocs
    /\ \E level \in PermissionLevel :
          Begin(Request("updateShare", 2, "A", 1, "B", [permissionLevel |-> level]))

NextAccess ==
    \/ SetUpDiagram
    \/ SetUpShare
    \/ BeginGranteeUpdate
    \/ BeginOwnerRevoke
    \/ BeginOwnerUpdateShare
    \/ \E s \in Slots : Step(s)
    \/ \E s \in Slots : Release(s)

SpecAccess == Init /\ [][NextAccess]_vars

----------------------------------------------------------------------------
(* Overlapping updates on every path of the handler, scheduled fairly *)

\* Bodies that lead to each outcome: a matching or stale expectedVersion, none
\* at all, and a userId that violates the foreign key.
TerminationBodies ==
    {[payload |-> "P2", expectedVersion |-> 1],
     [payload |-> "P3"],
     [payload |-> "P2", userId |-> NonUser]}

\* An update of a diagram that exists or of an id that names none.
BeginAnyUpdate(s) ==
    /\ clock + PendingTimestamps < MaxClock
    /\ \E actor \in {"A", "B"}, id \in DocIds, body \in TerminationBodies :
          Begin(Request("update", s, actor, id, NonUser, body))

NextTermination ==
    \/ SetUpDiagram
    \/ SetUpShare
    \/ \E s \in Slots : BeginAnyUpdate(s)
    \/ \E s \in Slots : Step(s)
    \/ \E s \in Slots : Release(s)

\* A request whose next statement can execute again and again does execute
\* it: the event loop runs every continuation, and PostgreSQL grants a row
\* lock to the transactions waiting for it in the order of their arrival, so
\* requests that arrive later cannot overtake a waiting one for ever.
SpecTermination ==
    /\ Init
    /\ [][NextTermination]_vars
    /\ \A s \in Slots : SF_vars(Step(s))

----------------------------------------------------------------------------
(* Every route, on a diagram and its copies, one request at a time *)

\* Attributes of the model a caller may add to the body of POST /.
CreateForgeries ==
    {[userId |-> "C", version |-> 0, lastModifiedBy |-> NonUser],
     [isShared |-> TRUE]}

CreateBodies ==
    {[payload |-> "P1"]} \cup {Spread([payload |-> "P1"], f) : f \in CreateForgeries}

\* Ids a client can know: those allocated so far.
KnownIds == 1 .. nextId

StoreCreate ==
    /\ Quiescent
    /\ nextId + 1 \in DocIds /\ clock < MaxClock
    /\ \E actor \in {"A", "B"}, body \in CreateBodies :
          Serve(Request("create", 1, actor, 0, NonUser, body))

StoreDuplicate ==
    /\ Quiescent
    /\ nextId + 1 \in DocIds
    /\ \E actor \in Users, id \in KnownIds :
          Serve(Request("duplicate", 1, actor, id, NonUser, NoBody))

StoreUpdate ==
    /\ Quiescent
    /\ clock < MaxClock
    /\ \E actor \in Users, id \in KnownIds, v \in ExpectedVersions :
          Serve(Request("update", 1, actor, id, NonUser,
                        [payload |-> "P2", expectedVersion |-> v]))

StoreGetById ==
    /\ Quiescent
    /\ \E actor \in Users, id \in KnownIds :
          Serve(Request("getById", 1, actor, id, NonUser, NoBody))

StoreGetVersion ==
    /\ Quiescent
    /\ \E actor \in Users, id \in KnownIds :
          Serve(Request("getVersion", 1, actor, id, NonUser, NoBody))

StoreSync ==
    /\ Quiescent
    /\ \E actor \in Users, id \in KnownIds, v \in ExpectedVersions :
          Serve(Request("sync", 1, actor, id, NonUser, [expectedVersion |-> v]))

StoreShare ==
    /\ Quiescent
    /\ \E actor \in Users, id \in KnownIds, level \in {VIEWER, EDITOR} :
          Serve(Request("shareDiagram", 1, actor, id, NonUser,
                        [userId |-> "B", permissionLevel |-> level]))

StoreUpdateShare ==
    /\ Quiescent
    /\ \E actor \in Users, id \in KnownIds, level \in {VIEWER, EDITOR} :
          Serve(Request("updateShare", 1, actor, id, "B",
                        [permissionLevel |-> level]))

StoreRevokeShare ==
    /\ Quiescent
    /\ \E actor \in Users, id \in KnownIds :
          Serve(Request("revokeShare", 1, actor, id, "B", NoBody))

StoreGetShares ==
    /\ Quiescent
    /\ \E actor \in Users, id \in KnownIds :
          Serve(Request("getShares", 1, actor, id, NonUser, NoBody))

StoreDelete ==
    /\ Quiescent
    /\ \E actor \in Users, id \in KnownIds :
          Serve(Request("delete", 1, actor, id, NonUser, NoBody))

NextStore ==
    \/ StoreCreate \/ StoreDuplicate \/ StoreUpdate
    \/ StoreGetById \/ StoreGetVersion \/ StoreSync
    \/ StoreShare \/ StoreUpdateShare \/ StoreRevokeShare \/ StoreGetShares
    \/ StoreDelete
    \/ Delivered

SpecStore == Init /\ [][NextStore]_vars

----------------------------------------------------------------------------
(* The WorkSpace component: the editor of the diagram's creator *)

ClientUser == "A"
ClientTime == 0      \* new Date() of the browser; the server overwrites it

\* diagramData of save(): the editor's content with expectedVersion: currentVersion
DiagramData(c) ==
    [payload |-> c.tables, lastModified |-> ClientTime,
     expectedVersion |-> c.currentVersion]

\* await diagramAPI.<kind>(...): the request leaves, the closure keeps the
\* currentVersion it was created with and waits for the answer in r.slot.
Call(c, r, kind) ==
    /\ Arrive(r)
    /\ client' = [c EXCEPT !.calls[r.slot] =
                               [kind |-> kind, seen |-> c.currentVersion]]

\* The answer awaited in slot s is consumed.
Consume(s, c) ==
    /\ client' = [c EXCEPT !.calls[s] = NoCall]
    /\ reqs' = [reqs EXCEPT ![s] = Idle]
    /\ UNCHANGED <<diagrams, shares, rowLock, clock, nextId, createdBy, commits>>

\* loadDiagram: setId, setTables ..., setCurrentVersion(diagram.version || 1)
Loaded(c, diagram) ==
    [c EXCEPT !.id = diagram.id, !.tables = diagram.payload,
              !.currentVersion = IF diagram.version = 0 THEN 1
                                 ELSE diagram.version]

\* load() as one read of the committed rows.
Fetch == Run(Database, Request("getById", 1, ClientUser, 1, NonUser, NoBody))

\* useEffect(load): the component mounts and opens the diagram.
Open ==
    /\ client.id = 0
    /\ Fetch.r.status = 200
    /\ client' = Loaded(client, Fetch.r.resp)
    /\ Install(Fetch.db)
    /\ UNCHANGED reqs

\* The user changes the diagram.  The first autosave effect sets SAVING; the
\* second one runs because saveState is SAVING and save (which depends on
\* tables) is a new function, and calls save(): a PUT leaves at once, whether
\* or not an earlier one is still awaited.  The conflict dialog is modal.
Edit(s) ==
    /\ client.id # 0
    /\ ~client.showConflictDialog
    /\ clock + PendingTimestamps < MaxClock
    /\ \E p \in Payloads \ {client.tables} :
          LET edited == [client EXCEPT !.tables = p, !.saveState = "SAVING"]
          IN  Call(edited, Request("update", s, ClientUser, client.id, NonUser,
                                   DiagramData(edited)), "save")

\* save() after its await: the try block's tail, or the catch block.
SaveResult(c, r) ==
    IF r.status = 200
    THEN [c EXCEPT !.currentVersion = r.resp.version, !.saveState = "SAVED"]
    ELSE IF r.status = 409
    THEN [c EXCEPT !.conflictData = [localChanges |-> r.body,
                                     serverVersion |-> r.resp],
                   !.showConflictDialog = TRUE,
                   !.saveState = "ERROR"]
    ELSE [c EXCEPT !.saveState = "ERROR"]

SaveAnswered(s) ==
    /\ client.calls[s].kind = "save"
    /\ ~InFlight(s)
    /\ Consume(s, SaveResult(client, reqs[s]))

KeepLocalBody_SameVersion(conflictData) == conflictData.localChanges

\* { ...conflictData.localChanges,
\*   expectedVersion: conflictData.serverVersion.version }
KeepLocalBody(conflictData) ==
    Spread(conflictData.localChanges,
           [expectedVersion |-> conflictData.serverVersion.version])

\* handleConflictResolve("keep-local") up to its await.
KeepLocal(s) ==
    /\ client.showConflictDialog
    /\ clock + PendingTimestamps < MaxClock
    /\ Call(client, Request("update", s, ClientUser, client.id, NonUser,
                            KeepLocalBody(client.conflictData)), "keep")

\* handleConflictResolve("keep-local") after its await.
KeepResult(c, r) ==
    IF r.status = 200
    THEN [c EXCEPT !.currentVersion = r.resp.version, !.saveState = "SAVED",
                   !.showConflictDialog = FALSE, !.conflictData = NoRow]
    ELSE c

KeepAnswered(s) ==
    /\ client.calls[s].kind = "keep"
    /\ ~InFlight(s)
    /\ Consume(s, KeepResult(client, reqs[s]))

\* handleConflictResolve("keep-server"): the dialog closes and load() runs.
KeepServer ==
    /\ client.showConflictDialog
    /\ LET closed == [client EXCEPT !.showConflictDialog = FALSE,
                                    !.conflictData = NoRow]
       IN  client' = IF Fetch.r.status = 200 THEN Loaded(closed, Fetch.r.resp)
                     ELSE closed
    /\ Install(Fetch.db)
    /\ UNCHANGED reqs

\* onClose of the dialog.
DismissConflict ==
    /\ client.showConflictDialog
    /\ client' = [client EXCEPT !.showConflictDialog = FALSE,
                                !.conflictData = NoRow]
    /\ UNCHANGED <<diagrams, shares, rowLock, clock, nextId, createdBy, commits,
                   reqs>>

\* The interval fires: diagramAPI.getVersion(id) leaves.
Poll(s) ==
    /\ client.id # 0
    /\ Call(client, Request("getVersion", s, ClientUser, client.id, NonUser,
                            NoBody), "poll")

PollResult_Adopts(c, call, r) ==
    IF r.status = 200 /\ r.resp.version > call.seen
    THEN [c EXCEPT !.warning = TRUE, !.currentVersion = r.resp.version]
    ELSE c

\* if (versionInfo.version > currentVersion) Toast.warning(...); a failed
\* check is only logged.
PollResult(c, call, r) ==
    IF r.status = 200 /\ r.resp.version > call.seen
    THEN [c EXCEPT !.warning = TRUE]
    ELSE c

PollAnswered(s) ==
    /\ client.calls[s].kind = "poll"
    /\ ~InFlight(s)
    /\ Consume(s, PollResult(client, client.calls[s], reqs[s]))

\* duration: 5: the notice disappears.
ToastExpires ==
    /\ client.warning
    /\ client' = [client EXCEPT !.warning = FALSE]
    /\ UNCHANGED <<diagrams, shares, rowLock, clock, nextId, createdBy, commits,
                   reqs>>

\* PUT /:id by user B, from elsewhere.
OtherUpdate(s) ==
    /\ clock + PendingTimestamps < MaxClock
    /\ nextId \in MainDocs
    /\ Begin(Request("update", s, "B", 1, NonUser, [payload |-> "P3"]))

\* The response of a request the editor did not send has been delivered.
OtherDelivered(s) ==
    /\ client.calls[s].kind = "none"
    /\ Release(s)

NextClient ==
    \/ SetUpDiagram
    \/ SetUpShare
    \/ Open
    \/ \E s \in Slots : Edit(s)
    \/ \E s \in Slots : SaveAnswered(s)
    \/ \E s \in Slots : KeepLocal(s)
    \/ \E s \in Slots : KeepAnswered(s)
    \/ KeepServer
    \/ DismissConflict
    \/ \E s \in Slots : Poll(s)
    \/ \E s \in Slots : PollAnswered(s)
    \/ ToastExpires
    \/ \E s \in Slots : OtherUpdate(s)
    \/ \E s \in Slots : Step(s)
    \/ \E s \in Slots : OtherDelivered(s)

SpecClient == Init /\ [][NextClient]_vars

\* The editor alone: nobody else sends a request for the diagram.
NextAlone ==
    \/ SetUpDiagram
    \/ Open
    \/ \E s \in Slots : Edit(s)
    \/ \E s \in Slots : SaveAnswered(s)
    \/ \E s \in Slots : KeepLocal(s)
    \/ \E s \in Slots : KeepAnswered(s)
    \/ KeepServer
    \/ DismissConflict
    \/ \E s \in Slots : Poll(s)
    \/ \E s \in Slots : PollAnswered(s)
    \/ ToastExpires
    \/ \E s \in Slots : Step(s)
    \/ \E s \in Slots : OtherDelivered(s)

SpecAlone == Init /\ [][NextAlone]_vars

----------------------------------------------------------------------------
(* Vocabulary of the properties *)

\* The specification's effective permission of an actor on a diagram: the
\* diagram's owner, else the level of the actor's share entry, else none.
NONE == "none"

EffectivePermission(db, actor, id) ==
    IF DiagramRow(db, id).userId = actor THEN OWNER
    ELSE IF ShareRows(db, id, actor) # {}
         THEN (CHOOSE s \in ShareRows(db, id, actor) : TRUE).permissionLevel
         ELSE NONE

Last == reqs[1]

HasExpectedVersion(r) == "expectedVersion" \in DOMAIN r.body

\* The response a request would get in the current state.
StatusOf(r) == Run(Database, r).r.status

Completes(s) == reqs[s] # reqs'[s] /\ reqs'[s].pc = "done" /\ reqs'[s].op # "idle"

ShareManagement == {"shareDiagram", "getShares", "updateShare", "revokeShare"}

\* The update in slot s is between its SELECT ... FOR UPDATE and its response.
PastLock(s) ==
    /\ reqs[s].op = "update"
    /\ reqs[s].pc \in {"locked", "authorized", "written"}

\* A response body holds the content of a diagram: a diagram itself
\* (getById, update, duplicate), or one inside a conflict answer of update
\* (currentVersion.data) or of sync (currentVersion).
CarriesPayload(resp) ==
    \/ "payload" \in DOMAIN resp
    \/ "data" \in DOMAIN resp /\ "payload" \in DOMAIN resp.data
    \/ "currentVersion" \in DOMAIN resp /\ "payload" \in DOMAIN resp.currentVersion

----------------------------------------------------------------------------
(* Properties *)

\* C1: two overlapping updates of one diagram that carry the same
\* expectedVersion do not both commit; when one commits, the other (if it is
\* not refused for lack of permission) gets 409 carrying the winner's version.
C1_OneWinner ==
    \A s, t \in Slots :
        ( /\ s # t
          /\ reqs[s].op = "update" /\ reqs[t].op = "update"
          /\ ~InFlight(s) /\ ~InFlight(t)
          /\ reqs[s].overlapped /\ reqs[t].overlapped
          /\ reqs[s].id = reqs[t].id
          /\ HasExpectedVersion(reqs[s]) /\ HasExpectedVersion(reqs[t])
          /\ reqs[s].body.expectedVersion = reqs[t].body.expectedVersion
          /\ reqs[s].status = 200
          /\ reqs[t].status # 403 )
        => /\ reqs[t].status = 409
           /\ reqs[t].resp.version = reqs[s].resp.version

\* C2: the version of a diagram is 1 plus the number of committed updates,
\* and the k-th committed update wrote version k + 1: versions start at 1 and
\* advance by exactly one per commit, whatever the request bodies hold.
C2_VersionsAdvanceByOne ==
    \A d \in diagrams :
        /\ d.version = 1 + Len(commits[d.id])
        /\ \A k \in 1 .. Len(commits[d.id]) : commits[d.id][k] = k + 1

C2_Witness ==
    /\ commits[1] = <<2, 3>>
    /\ \A s \in Slots : /\ reqs[s].op = "update" /\ reqs[s].status = 200
                        /\ reqs[s].overlapped
    /\ \E s \in Slots : "version" \in DOMAIN reqs[s].body

\* C3: an update commits only if it supplied an expectedVersion equal to the
\* version stored when it was compared (the version before its increment).
C3_CommitNeedsMatch ==
    (Last.op = "update" /\ Last.status = 200)
        => /\ HasExpectedVersion(Last)
           /\ Last.body.expectedVersion = Last.resp.version - 1

\* C4: an update that ends 409 carries the diagram as stored when it was
\* compared; and A's update with expectedVersion 1 of its diagram, which
\* editor B has brought to version 2 with payload P2, ends 409 with version 2,
\* payload P2 and lastModifiedBy B.
C4_ConflictCarriesStored ==
    [][\A s \in Slots :
        (Completes(s) /\ reqs'[s].op = "update") =>
            LET stored == DiagramRow(Database, reqs'[s].id)
                r == reqs'[s]
            IN  /\ r.status = 409 =>
                      /\ r.resp.version = stored.version
                      /\ r.resp.lastModified = stored.lastModified
                      /\ r.resp.lastModifiedBy = stored.lastModifiedBy
                      /\ r.resp.data = stored
                      /\ DiagramRow(Database', r.id) = stored
                /\ ( /\ r.actor = "A" /\ createdBy[r.id] = "A"
                     /\ stored # NoRow
                     /\ stored.userId = "A" /\ stored.version = 2
                     /\ stored.payload = "P2" /\ stored.lastModifiedBy = "B"
                     /\ HasExpectedVersion(r) /\ r.body.expectedVersion = 1 )
                   => /\ r.status = 409
                      /\ r.resp.version = 2
                      /\ r.resp.data.payload = "P2"
                      /\ r.resp.lastModifiedBy = "B"]_vars

C4_Witness ==
    \E s \in Slots :
        /\ reqs[s].op = "update" /\ reqs[s].actor = "A" /\ reqs[s].status = 409
        /\ reqs[s].body.expectedVersion = 1
        /\ reqs[s].overlapped
        /\ reqs[s].resp.version = 2
        /\ reqs[s].resp.data.payload = "P2"
        /\ reqs[s].resp.lastModifiedBy = "B"
        /\ \E sh \in shares : sh.sharedWithUserId = "B" /\ sh.permissionLevel = EDITOR

\* C5: an update that ends 403, 404 or 409 leaves every diagram row and every
\* share row as it was.
C5_RejectedUpdateWritesNothing ==
    [][(Completes(1) /\ reqs'[1].op = "update" /\ reqs'[1].status \in {403, 404, 409})
          => /\ diagrams' = diagrams
             /\ shares' = shares
             /\ commits' = commits]_vars

C5_Witness ==
    /\ Last.op = "update" /\ Last.status = 409
    /\ shares # {}
    /\ \E d \in diagrams : d.version = 2

\* C6: an update by an actor whose effective permission on the diagram is
\* none or viewer ends 403 and writes nothing, with or without expectedVersion.
C6_ViewerOrNoneForbidden ==
    [][( /\ Completes(1) /\ reqs'[1].op = "update"
         /\ DiagramExists(Database, reqs'[1].id)
         /\ EffectivePermission(Database, reqs'[1].actor, reqs'[1].id)
               \in {NONE, VIEWER} )
          => /\ reqs'[1].status = 403
             /\ diagrams' = diagrams
             /\ shares' = shares
             /\ commits' = commits]_vars

\* B committed an update as editor, is now a viewer, and its update is refused.
C6_Witness ==
    /\ Last.op = "update" /\ Last.actor = "B" /\ Last.status = 403
    /\ ~HasExpectedVersion(Last)
    /\ \E d \in diagrams : d.id = Last.id /\ d.lastModifiedBy = "B" /\ d.userId = "A"
    /\ \E sh \in shares : sh.sharedWithUserId = "B" /\ sh.permissionLevel = VIEWER

\* C7 as stated: after revokeShare removed the only share entry of a diagram,
\* the diagram is not shared and the former grantee has no permission on it:
\* its getById and its update are refused.
C7_RevokedGranteeHasNone ==
    ( /\ Last.op = "revokeShare" /\ Last.status = 200 /\ Last.n = 0
      /\ DiagramExists(Database, Last.id) )
    => /\ DiagramRow(Database, Last.id).isShared = FALSE
       /\ EffectivePermission(Database, Last.target, Last.id) = NONE
       /\ StatusOf(Request("getById", 2, Last.target, Last.id, NonUser, NoBody)) = 403
       /\ \A body \in UpdateBodies :
             StatusOf(Request("update", 2, Last.target, Last.id, NonUser, body)) = 403

\* C7 amended: the same, for a former grantee that is not the diagram's owner.
C7_RevokedNonOwnerHasNone ==
    ( /\ Last.op = "revokeShare" /\ Last.status = 200 /\ Last.n = 0
      /\ DiagramExists(Database, Last.id) )
    => /\ DiagramRow(Database, Last.id).isShared = FALSE
       /\ {s \in shares : s.diagramId = Last.id} = {}
       /\ Last.target # DiagramRow(Database, Last.id).userId =>
             /\ EffectivePermission(Database, Last.target, Last.id) = NONE
             /\ StatusOf(Request("getById", 2, Last.target, Last.id, NonUser, NoBody))
                   = 403
             /\ \A body \in UpdateBodies :
                   StatusOf(Request("update", 2, Last.target, Last.id, NonUser, body))
                      = 403

C7_Witness ==
    /\ Last.op = "revokeShare" /\ Last.status = 200 /\ Last.n = 0
    /\ Last.target = "B"
    /\ \E d \in diagrams : d.id = Last.id /\ d.userId = "A" /\ d.version = 2
                              /\ d.lastModifiedBy = "B"

\* C8: the actor that created a diagram has owner permission on it as long
\* as it exists: it can read it, update it with the matching version, list
\* its shares and delete it.
C8_CreatorKeepsOwner ==
    \A d \in diagrams :
        LET creator == createdBy[d.id]
        IN  /\ EffectivePermission(Database, creator, d.id) = OWNER
            /\ StatusOf(Request("getById", 2, creator, d.id, NonUser, NoBody)) = 200
            /\ StatusOf(Request("update", 2, creator, d.id, NonUser,
                                [payload |-> "P2", expectedVersion |-> d.version]))
                  = 200
            /\ StatusOf(Request("getShares", 2, creator, d.id, NonUser, NoBody)) = 200
            /\ StatusOf(Request("delete", 2, creator, d.id, NonUser, NoBody)) = 200

\* C9: no request changes the userId of an existing diagram, and every
\* diagram keeps the id it was created with.
C9_OwnerAndIdImmutable ==
    [][/\ \A d \in diagrams : \A e \in diagrams' : e.id = d.id => e.userId = d.userId
       /\ \A e \in diagrams' : e.id \in 1 .. nextId']_vars

\* C10: a share-management request on an existing diagram is let through
\* exactly when the actor's effective permission on it is owner.
C10_OwnerLevelManagesShares ==
    [][( /\ Completes(1) /\ reqs'[1].op \in ShareManagement
         /\ DiagramExists(Database, reqs'[1].id) )
          => ( EffectivePermission(Database, reqs'[1].actor, reqs'[1].id) = OWNER
                 <=> reqs'[1].resp # AccessDenied )]_vars

\* C11: no two share entries name the same diagram and grantee, also when
\* grants overlap; and a grant by the owner for a pair that has an entry this
\* request did not create ends 409 and changes no share entry.
C11_UniqueShareEntries ==
    [][/\ \A x, y \in shares' :
            (x.diagramId = y.diagramId /\ x.sharedWithUserId = y.sharedWithUserId)
               => x = y
       /\ \A s \in Slots :
            ( /\ Completes(s) /\ reqs[s].op = "shareDiagram"
              /\ reqs[s].share = NoRow
              /\ OwnedDiagram(Database, reqs[s].id, reqs[s].actor) # NoRow
              /\ reqs[s].body.userId \in Users
              /\ ShareRows(Database, reqs[s].id, reqs[s].body.userId) # {} )
            => /\ reqs'[s].status = 409
               /\ shares' = shares]_vars

\* C12: a diagram row disappears only in a delete request of its creator
\* that ends 200; a delete by any other actor, owner-level grantees included,
\* removes no diagram and no share entry.
C12_OnlyCreatorDeletes ==
    [][/\ \A d \in diagrams :
            ~DiagramExists(Database', d.id)
               => /\ Completes(1) /\ reqs'[1].op = "delete" /\ reqs'[1].id = d.id
                  /\ reqs'[1].status = 200
                  /\ reqs'[1].actor = createdBy[d.id]
       /\ ( /\ Completes(1) /\ reqs'[1].op = "delete"
            /\ DiagramExists(Database, reqs'[1].id)
            /\ reqs'[1].actor # createdBy[reqs'[1].id] )
          => /\ diagrams' = diagrams
             /\ shares' = shares]_vars

C14_SharedFlagMatchesEntries ==
    Quiescent =>
        \A d \in diagrams :
            d.isShared <=> (\E sh \in shares : sh.diagramId = d.id)

\* C15: right after an update that carried an expectedVersion v and a
\* payload has answered 200, a getById of the same diagram by the same actor
\* answers 200 with that payload, version v + 1 and lastModifiedBy the actor.
C15_UpdateThenGet ==
    (Last.op = "update" /\ Last.status = 200 /\ HasExpectedVersion(Last))
        => LET get == Run(Database,
                          Request("getById", 2, Last.actor, Last.id, NonUser, NoBody)).r
           IN  /\ get.status = 200
               /\ get.resp.payload = Last.body.payload
               /\ get.resp.version = Last.body.expectedVersion + 1
               /\ get.resp.lastModifiedBy = Last.actor

\* C16: a getById or getVersion changes no diagram row and no share entry,
\* and the same request repeated right after it gets the same status and the
\* same body, again without changing anything.
C16_ReadsAreReadOnly ==
    [][(Completes(1) /\ reqs'[1].op \in {"getById", "getVersion"})
          => LET r == reqs'[1]
                 again == Run(Database',
                              Request(r.op, 1, r.actor, r.id, r.target, r.body))
             IN  /\ diagrams' = diagrams
                 /\ shares' = shares
                 /\ again.r.status = r.status
                 /\ again.r.resp = r.resp
                 /\ again.db = Database']_vars

\* Grantee B reads a diagram of A that has been updated.
C16_Witness ==
    /\ Last.op = "getById" /\ Last.actor = "B" /\ Last.status = 200
    /\ Last.resp.userId = "A" /\ Last.resp.version = 2
    /\ \E sh \in shares : sh.diagramId = Last.id /\ sh.sharedWithUserId = "B"

\* C17: a create answers 201 and stores exactly one new row, the one it
\* returns, with version 1 and with userId and lastModifiedBy equal to the
\* actor, whatever the body holds for those fields.
C17_CreateSetsOwnerAndVersion ==
    [][(Completes(1) /\ reqs'[1].op = "create")
          => LET r == reqs'[1]
             IN  /\ r.status = 201
                 /\ diagrams' = diagrams \cup {r.resp}
                 /\ r.resp \notin diagrams
                 /\ r.resp.version = 1
                 /\ r.resp.userId = r.actor
                 /\ r.resp.lastModifiedBy = r.actor]_vars

\* A create whose body names another owner, version 0 and another modifier.
C17_Witness ==
    /\ Last.op = "create" /\ Last.status = 201
    /\ DOMAIN Last.body = {"payload", "userId", "version", "lastModifiedBy"}
    /\ Last.body.userId # Last.actor /\ Last.body.version # 1
    /\ Last.body.lastModifiedBy # Last.actor
    /\ Last.resp \in diagrams

\* C18: on an existing diagram, a delete or share-management request of an
\* actor who is not its owner ends 403; and such a request ends 404 only when
\* the diagram, the share entry or the user it names does not exist.
C18_ForbiddenIsNotNotFound ==
    [][(Completes(1) /\ reqs'[1].op \in ShareManagement \cup {"delete"})
          => LET r == reqs'[1]
             IN  /\ ( /\ DiagramExists(Database, r.id)
                      /\ EffectivePermission(Database, r.actor, r.id) # OWNER )
                    => r.status = 403
                 /\ r.status = 404
                    => \/ ~DiagramExists(Database, r.id)
                       \/ /\ r.op \in {"updateShare", "revokeShare"}
                          /\ ShareRows(Database, r.id, r.target) = {}
                       \/ /\ r.op = "shareDiagram"
                          /\ r.body.userId \notin Users]_vars

\* C19: version, payload, lastModifiedBy and lastModified of an existing
\* diagram change only in the step that completes an update of it with 200,
\* which advances the version by one and stores the actor as lastModifiedBy
\* together with the payload and timestamp it returns; every other step
\* leaves the four alone, and a new diagram has its creator as lastModifiedBy.
C19_ContentChangesOnlyInCommit ==
    [][/\ \A d \in diagrams : \A e \in diagrams' :
            ( /\ e.id = d.id
              /\ <<e.version, e.payload, e.lastModifiedBy, e.lastModified>>
                   # <<d.version, d.payload, d.lastModifiedBy, d.lastModified>> )
            => \E s \in Slots :
                  /\ Completes(s) /\ reqs'[s].op = "update" /\ reqs'[s].id = d.id
                  /\ reqs'[s].status = 200
       /\ \A s \in Slots :
            (Completes(s) /\ reqs'[s].op = "update" /\ reqs'[s].status = 200)
            => LET d == DiagramRow(Database, reqs'[s].id)
                   e == DiagramRow(Database', reqs'[s].id)
               IN  /\ e.version = d.version + 1
                   /\ e.lastModifiedBy = reqs'[s].actor
                   /\ e.payload = reqs'[s].resp.payload
                   /\ e.lastModified = reqs'[s].resp.lastModified
       /\ \A e \in diagrams' :
            ~DiagramExists(Database, e.id) => e.lastModifiedBy = createdBy'[e.id]]_vars

\* The owner revokes the share of an editor whose update was the last commit.
C19_Witness ==
    /\ Last.op = "revokeShare" /\ Last.status = 200
    /\ \E d \in diagrams : /\ d.id = Last.id /\ d.version = 2
                           /\ d.lastModifiedBy = "B" /\ d.userId # "B"
                           /\ d.payload = "P2"

\* C20: no response to a request on an existing diagram, made by an actor
\* whose effective permission on that diagram is none, holds the diagram's
\* content.
C20_NoPayloadWithoutPermission ==
    [][( /\ Completes(1)
         /\ reqs'[1].op \in {"getById", "update", "sync", "getVersion", "duplicate"}
         /\ DiagramExists(Database, reqs'[1].id)
         /\ EffectivePermission(Database, reqs'[1].actor, reqs'[1].id) = NONE )
          => ~CarriesPayload(reqs'[1].resp)]_vars

\* C21: of the updates of one diagram at most one is past its lock
\* acquisition and short of its response; it holds the row lock, and every
\* other update of that diagram in flight stands before the lock and cannot
\* take its next step.
C21_OneUpdatePastLock ==
    \A s \in Slots :
        PastLock(s) =>
            /\ rowLock[reqs[s].id] = s
            /\ \A t \in Slots \ {s} :
                  (reqs[t].op = "update" /\ InFlight(t) /\ reqs[t].id = reqs[s].id)
                     => /\ ~PastLock(t)
                        /\ reqs[t].pc = "start"
                        /\ Blocked(Database, reqs[t])

\* One update has written its row inside its transaction; the other waits.
C21_Witness ==
    \E s, t \in Slots :
        /\ PastLock(s) /\ reqs[s].pc = "written"
        /\ reqs[t].op = "update" /\ reqs[t].pc = "start" /\ reqs[t].id = reqs[s].id
        /\ Blocked(Database, reqs[t])

\* C22: an update that holds the lock and has not yet compared holds the
\* diagram as left by every update committed so far: its version is the
\* stored version, 1 plus the number of commits.
C22_ComparesAgainstLatestCommit ==
    \A s \in Slots :
        (PastLock(s) /\ reqs[s].pc \in {"locked", "authorized"})
           => /\ reqs[s].inst = DiagramRow(Database, reqs[s].id)
              /\ reqs[s].inst.version = 1 + Len(commits[reqs[s].id])

\* An update that began after another update's response is about to compare
\* against the version that update produced.
C22_Witness ==
    \E s, t \in Slots :
        /\ reqs[t].op = "update" /\ reqs[t].status = 200 /\ reqs[t].resp.version = 2
        /\ PastLock(s) /\ reqs[s].pc = "authorized" /\ ~reqs[s].overlapped
        /\ reqs[s].id = reqs[t].id
        /\ reqs[s].inst.version = 2

\* C23: when an update by an actor other than the diagram's creator commits,
\* that actor holds at that moment a share entry of level editor or owner on
\* the diagram.
C23_CommitterHoldsEditShare ==
    [][\A s \in Slots :
        ( /\ Completes(s) /\ reqs'[s].op = "update" /\ reqs'[s].status = 200
          /\ reqs'[s].actor # createdBy[reqs'[s].id] )
        => \E sh \in ShareRows(Database, reqs'[s].id, reqs'[s].actor) :
               sh.permissionLevel \in {EDITOR, OWNER}]_vars

\* C24: once an update has answered 200 with version v, the stored diagram
\* has version v or more, v is the version of one of its commits, and a
\* getById or getVersion of it returns version v or more.
C24_AnsweredCommitIsVisible ==
    \A s \in Slots :
        (reqs[s].op = "update" /\ reqs[s].status = 200)
           => LET id == reqs[s].id
                  v == reqs[s].resp.version
                  read(op) == Run(Database,
                                  Request(op, s, reqs[s].actor, id, NonUser, NoBody)).r
              IN  /\ DiagramExists(Database, id)
                  /\ DiagramRow(Database, id).version >= v
                  /\ \E k \in 1 .. Len(commits[id]) : commits[id][k] = v
                  /\ read("getVersion").resp.version >= v
                  /\ read("getById").status = 200
                        => read("getById").resp.version >= v

\* An update that waited for the lock has answered 200 while the other
\* update's answer is still undelivered.
C24_Witness ==
    \E s, t \in Slots :
        /\ s # t
        /\ reqs[s].op = "update" /\ reqs[s].status = 200 /\ reqs[s].overlapped
        /\ reqs[t].op = "update" /\ reqs[t].status = 200 /\ reqs[t].overlapped
        /\ reqs[s].resp.version = 2 /\ reqs[t].resp.version = 3

\* C25: after an update that carried an expectedVersion has answered 200,
\* the same request sent again (same actor, diagram and body) does not commit.
C25_RetryDoesNotCommitAgain ==
    [][( /\ Completes(1) /\ reqs'[1].op = "update" /\ reqs'[1].status = 200
         /\ HasExpectedVersion(reqs'[1]) )
          => LET r == reqs'[1]
                 retry == Run(Database',
                              Request("update", 1, r.actor, r.id, NonUser, r.body))
             IN  /\ retry.r.status # 200
                 /\ retry.db.diagrams = diagrams']_vars

\* C26: an update in flight whose actor has no edit permission on the
\* diagram (effective permission none or viewer) does not hold the diagram's
\* row lock, so no other update waits for it.
C26_NoLockWithoutEditPermission ==
    \A s \in Slots :
        ( /\ reqs[s].op = "update" /\ InFlight(s)
          /\ DiagramExists(Database, reqs[s].id)
          /\ EffectivePermission(Database, reqs[s].actor, reqs[s].id)
                \in {NONE, VIEWER} )
        => /\ rowLock[reqs[s].id] # s
           /\ \A t \in Slots \ {s} : ~Blocked(Database, reqs[t])

\* C27: every update in flight eventually gets its answer, one of 200, 403,
\* 404, 409 and 500; and a row lock is only ever held by an update that is
\* past its lock acquisition and short of its answer, so it is free once the
\* update has answered.
C27_UpdatesTerminateAndUnlock ==
    /\ [](\A i \in DocIds :
             rowLock[i] # 0 => /\ InFlight(rowLock[i])
                               /\ PastLock(rowLock[i])
                               /\ reqs[rowLock[i]].id = i)
    /\ \A s \in Slots :
          (reqs[s].op = "update" /\ InFlight(s))
             ~> ( /\ reqs[s].op = "update" /\ ~InFlight(s)
                  /\ reqs[s].status \in {200, 403, 404, 409, 500} )

\* An update that waited for the lock of a refused update has committed.
C27_Witness ==
    \E s, t \in Slots :
        /\ reqs[s].op = "update" /\ reqs[s].status = 403 /\ reqs[s].overlapped
        /\ reqs[t].op = "update" /\ reqs[t].status = 200 /\ reqs[t].overlapped
        /\ reqs[t].id = reqs[s].id
        /\ \A i \in DocIds : rowLock[i] = 0

\* The answer awaited in slot s belongs to a call of kind k of the editor.
ClientCall(s, k) == client.calls[s].kind = k

\* C28: keep-local resends the payload of the rejected save with
\* expectedVersion set to the version the conflict carried; when no update
\* has committed since that conflict was answered, the retry is answered 200,
\* adds exactly one commit, the stored payload is the resent payload, and the
\* editor's currentVersion becomes the version the retry stored.
C28_KeepLocalCommitsOnce ==
    [][\A s \in Slots :
          /\ (ClientCall(s, "none") /\ client'.calls[s].kind = "keep")
                => /\ reqs'[s].op = "update"
                   /\ reqs'[s].body.payload
                         = client.conflictData.localChanges.payload
                   /\ reqs'[s].body.expectedVersion
                         = client.conflictData.serverVersion.version
          /\ (/\ ClientCall(s, "keep")
              /\ Completes(s)
              /\ Len(commits[client.id]) + 1 = reqs[s].body.expectedVersion)
                => /\ reqs'[s].status = 200
                   /\ commits'[client.id]
                         = Append(commits[client.id],
                                  reqs[s].body.expectedVersion + 1)
                   /\ DiagramRow(Database, client.id)'.payload
                         = reqs[s].body.payload
                   /\ DiagramRow(Database, client.id)'.version
                         = reqs[s].body.expectedVersion + 1
          /\ (ClientCall(s, "keep") /\ ~InFlight(s) /\ reqs[s].status = 200
                 /\ client'.calls[s].kind = "none")
                => client'.currentVersion = reqs[s].resp.version
      ]_vars

\* The retry that follows a conflict with user B's update has committed and
\* its answer waits for the editor.
C28_Witness ==
    \E s \in Slots :
        /\ ClientCall(s, "keep")
        /\ reqs[s].pc = "done" /\ reqs[s].status = 200
        /\ commits[client.id] = <<2, 3>>
        /\ DiagramRow(Database, client.id).payload = reqs[s].body.payload
        /\ DiagramRow(Database, client.id).lastModifiedBy = ClientUser
        /\ client.showConflictDialog
        /\ client.conflictData.serverVersion.lastModifiedBy = "B"

\* C29: a poll is a getVersion request; when its answer carries a version
\* above the currentVersion the editor had when the poll left, the notice is
\* shown; sending the poll, serving it and consuming its answer change
\* neither the editor's content, its currentVersion, its save state or its
\* conflict data, nor any stored row.
C29_PollOnlyNotifies ==
    [][\A s \in Slots :
          /\ (ClientCall(s, "none") /\ client'.calls[s].kind = "poll")
                => /\ reqs'[s].op = "getVersion"
                   /\ client' = [client EXCEPT !.calls[s] = client'.calls[s]]
                   /\ UNCHANGED <<diagrams, shares, rowLock, clock, commits>>
          /\ (ClientCall(s, "poll") /\ InFlight(s) /\ Completes(s))
                => /\ client' = client
                   /\ UNCHANGED <<diagrams, shares, rowLock, clock, commits>>
          /\ (ClientCall(s, "poll") /\ ~InFlight(s)
                 /\ client'.calls[s].kind = "none")
                => /\ (/\ reqs[s].status = 200
                       /\ reqs[s].resp.version > client.calls[s].seen)
                         => client'.warning
                   /\ client' = [client EXCEPT !.calls[s] = NoCall,
                                               !.warning = client'.warning]
                   /\ UNCHANGED <<diagrams, shares, rowLock, clock, commits>>
      ]_vars

\* The notice is up after user B's commit, the editor still holds its own
\* content and the version it had, and no call is awaited.
C29_Witness ==
    /\ client.id # 0
    /\ client.warning
    /\ \A s \in Slots : ClientCall(s, "none")
    /\ DiagramRow(Database, client.id).lastModifiedBy = "B"
    /\ DiagramRow(Database, client.id).version > client.currentVersion
    /\ DiagramRow(Database, client.id).payload # client.tables

\* C30: when the editor is the only one to send requests for its diagram,
\* none of its saves is answered 409: every save finds the stored version
\* equal to the expectedVersion it carries.
C30_NoConflictAlone ==
    \A s \in Slots :
        (ClientCall(s, "save") /\ reqs[s].op = "update")
           => /\ reqs[s].status # 409
              /\ reqs[s].pc = "authorized"
                    => reqs[s].inst.version = reqs[s].body.expectedVersion

====
